---- MODULE Spec2Model ----
(***************************************************************************)
(* A model of scrstudio.engine.optimizers.Optimizers: one optimizer and    *)
(* one optional scheduler per named parameter group, stepped together, in  *)
(* subsets, or through a mixed-precision gradient scaler, and restored     *)
(* from per-group checkpoint state.                                        *)
(*                                                                         *)
(* Python dicts are insertion ordered: a dict is a sequence of records     *)
(* [k, v] with distinct keys.  Tensors are fixed-point integers; a number  *)
(* is a record [tag, v] with tag "num", "inf" or "nan", and a gradient     *)
(* that is None has tag "none".  Optional[float] (max_norm) is a sequence  *)
(* of length at most one.                                                  *)
(***************************************************************************)
EXTENDS Integers, Sequences, FiniteSets, TLC

VARIABLES phase, config, param_groups, self, warned, resumed, last, nops

vars == <<phase, config, param_groups, self, warned, resumed, last, nops>>

\* ------------------------------------------------------------------ bounds

\* Operations performed on one coordinator in a behaviour.
MaxOps == 3
\* Length of the name lists handed to the subset operations.
MaxNames == 2
\* The scale factor the gradient scaler holds during one iteration.
ScaleFactor == 2
\* The step indices handed to scheduler_step_all.
MaxStep == 1

\* --------------------------------------------------------- program constants

\* lr of the legacy camera_opt optimizer, in units of 1e-6 (line 107: 1e-3).
LegacyLr == 1000
\* lr_final of the legacy camera_opt scheduler, in units of 1e-6 (line 108: 1e-4).
LegacyLrFinal == 100
\* max_steps of the legacy camera_opt scheduler (line 108).
LegacyMaxSteps == 30000

\* ------------------------------------------------------------ ordered dicts

EmptyDict == <<>>

Keys(d) == [i \in 1..Len(d) |-> d[i].k]

KeySet(d) == {d[i].k : i \in 1..Len(d)}

Has(d, k) == k \in KeySet(d)

Get(d, k) == d[CHOOSE i \in 1..Len(d) : d[i].k = k].v

\* d[k] = v: an existing key keeps its position, a new key goes last.
Put(d, k, v) ==
    IF Has(d, k)
    THEN [i \in 1..Len(d) |-> IF d[i].k = k THEN [k |-> k, v |-> v] ELSE d[i]]
    ELSE Append(d, [k |-> k, v |-> v])

SeqSet(s) == {s[i] : i \in 1..Len(s)}

\* ------------------------------------------------------------------ numbers

Num(n) == [tag |-> "num", v |-> n]
Inf == [tag |-> "inf", v |-> 0]
NaN == [tag |-> "nan", v |-> 0]
NoGrad == [tag |-> "none", v |-> 0]

IsFinite(x) == x.tag = "num"

Abs(n) == IF n < 0 THEN -n ELSE n

Sign(n) == IF n < 0 THEN -1 ELSE IF n > 0 THEN 1 ELSE 0

\* Division truncating toward zero.
TruncDiv(a, b) == Sign(a) * (Abs(a) \div b)

\* The largest r with r * r <= n.
ISqrt(n) == CHOOSE r \in 0..n : r * r <= n /\ (r + 1) * (r + 1) > n

\* ------------------------------------------------------------ configuration

NoMaxNorm == <<>>

OptimizerConfig(target, lr, eps, max_norm) ==
    [target |-> target, lr |-> lr, eps |-> eps, max_norm |-> max_norm]

AdamOptimizerConfig(lr, eps) == OptimizerConfig("Adam", lr, eps, NoMaxNorm)

NoScheduler == [kind |-> "None", lr_final |-> 0, max_steps |-> 0]

ExponentialDecaySchedulerConfig(lr_final, max_steps) ==
    [kind |-> "ExponentialDecay", lr_final |-> lr_final, max_steps |-> max_steps]

\* Python truthiness of config[name]["scheduler"]: None is falsy, a config object truthy.
Truthy(sched) == sched.kind # "None"

LegacyEntry ==
    [optimizer |-> AdamOptimizerConfig(LegacyLr, "1e-15"),
     scheduler |-> ExponentialDecaySchedulerConfig(LegacyLrFinal, LegacyMaxSteps)]

\* ------------------------------------------------------------------- errors

NoError == [type |-> "none", arg |-> "", keys |-> <<>>]

KeyError(k) == [type |-> "KeyError", arg |-> k, keys |-> <<>>]

\* The setup error without the configured names in its message.
ConfigError_NoKeys(name, keys) == [type |-> "RuntimeError", arg |-> name, keys |-> <<>>]

\* The RuntimeError of __init__: arg is the group the message names, keys the
\* config.keys() it prints.
ConfigError(name, keys) == [type |-> "RuntimeError", arg |-> name, keys |-> keys]

ScalerError(msg) == [type |-> "RuntimeError", arg |-> msg, keys |-> <<>>]

AssertionError(msg) == [type |-> "AssertionError", arg |-> msg, keys |-> <<>>]

ValueError(msg) == [type |-> "ValueError", arg |-> msg, keys |-> <<>>]

\* ------------------------------------------------------- tensors and groups

Names == {"fields", "proposal", "camera_opt"}

\* The Parameter objects of the model, by identity.
TensorIds == 1..2

FreshTensors == [p \in TensorIds |-> [data |-> Num(0), grad |-> NoGrad]]

\* p.grad is not None for some p of the optimizer (lines 164 and 179).
AnyGrad(tensors, params) == \E i \in 1..Len(params) : tensors[params[i]].grad.tag # "none"

\* ---------------------------------------------------- torch.optim.Optimizer

\* config.setup(params): the optimizer gets lr and eps, neither _target nor
\* max_norm; its per-parameter state starts empty (step 0, no momentum).
setup(optcfg, params) ==
    [kind |-> optcfg.target, lr |-> optcfg.lr, eps |-> optcfg.eps, params |-> params,
     state |-> [p \in SeqSet(params) |-> [step |-> 0, exp_avg |-> Num(0)]]]

\* One parameter's update: the step count advances, the momentum accumulates
\* the gradient, the value moves against the momentum's sign by lr.  A
\* non-finite gradient or momentum makes the value NaN.
AdamUpdate(opt, st, t) ==
    LET m == IF IsFinite(st.exp_avg) /\ IsFinite(t.grad)
             THEN Num(st.exp_avg.v + t.grad.v) ELSE NaN
        d == IF IsFinite(m) /\ IsFinite(t.data)
             THEN Num(t.data.v - opt.lr * Sign(m.v)) ELSE NaN
    IN  [st |-> [step |-> st.step + 1, exp_avg |-> m], t |-> [t EXCEPT !.data = d]]

\* optimizer.step(): every parameter of the optimizer that has a gradient is
\* updated in place; a parameter whose grad is None is skipped.
RECURSIVE StepParams(_, _, _)
StepParams(opt, tensors, i) ==
    IF i > Len(opt.params) THEN [opt |-> opt, tensors |-> tensors]
    ELSE LET p == opt.params[i]
         IN  IF tensors[p].grad.tag = "none"
             THEN StepParams(opt, tensors, i + 1)
             ELSE LET u == AdamUpdate(opt, opt.state[p], tensors[p])
                  IN  StepParams([opt EXCEPT !.state[p] = u.st],
                                 [tensors EXCEPT ![p] = u.t], i + 1)

OptStep(w, g) ==
    LET r == StepParams(Get(w.optimizers, g), w.tensors, 1)
    IN  [w EXCEPT !.optimizers = Put(w.optimizers, g, r.opt), !.tensors = r.tensors]

\* optimizer.zero_grad(): the gradients of the optimizer's parameters are cleared.
OptZeroGrad(w, g) ==
    LET ps == SeqSet(Get(w.optimizers, g).params)
    IN  [w EXCEPT !.tensors = [p \in TensorIds |->
            IF p \in ps THEN [w.tensors[p] EXCEPT !.grad = NoGrad] ELSE w.tensors[p]]]

\* optimizer.state_dict(): the per-parameter state by position in the
\* parameter list, and the param_group's hyperparameters.
OptStateDict(opt) ==
    [state |-> [i \in 1..Len(opt.params) |-> opt.state[opt.params[i]]], lr |-> opt.lr]

\* optimizer.load_state_dict(sd): refused when the sizes differ; otherwise
\* the state is mapped back from positions to this optimizer's parameters.
OptLoadable(opt, sd) == Len(sd.state) = Len(opt.params)

OptLoadStateDict(opt, sd) ==
    [opt EXCEPT !.lr = sd.lr,
                !.state = [p \in SeqSet(opt.params) |->
                    sd.state[CHOOSE i \in 1..Len(opt.params) : opt.params[i] = p]]]

\* ------------------------------------------------- torch.nn.utils.clip_grad

GradsOf(tensors, params) ==
    {tensors[params[i]].grad : i \in {j \in 1..Len(params) : tensors[params[j]].grad.tag # "none"}}

RECURSIVE SumSq(_, _, _)
SumSq(tensors, ps, acc) ==
    IF ps = {} THEN acc
    ELSE LET p == CHOOSE q \in ps : TRUE
         IN  SumSq(tensors, ps \ {p},
                   IF tensors[p].grad.tag = "num"
                   THEN acc + tensors[p].grad.v * tensors[p].grad.v ELSE acc)

\* The joint L2 norm of the gradients of params: nan if one is nan, else inf
\* if one is inf.
TotalNorm(tensors, params) ==
    LET gs == GradsOf(tensors, params)
    IN  IF \E x \in gs : x.tag = "nan" THEN NaN
        ELSE IF \E x \in gs : x.tag = "inf" THEN Inf
        ELSE Num(ISqrt(SumSq(tensors, SeqSet(params), 0)))

\* grad * clip_coef, clip_coef = min(1, max_norm / total_norm): an infinite
\* norm gives the coefficient 0 (so inf * 0 = nan), a nan norm gives nan.
ClipOne(grad, norm, max_norm) ==
    CASE grad.tag = "none" -> grad
      [] norm.tag = "nan" -> NaN
      [] norm.tag = "inf" -> IF grad.tag = "num" THEN Num(0) ELSE NaN
      [] OTHER -> IF norm.v > max_norm /\ grad.tag = "num"
                  THEN Num(TruncDiv(grad.v * max_norm, norm.v)) ELSE grad

\* clip_grad_norm_(parameters, max_norm): rescales the gradients in place.
clip_grad_norm_(tensors, params, max_norm) ==
    LET norm == TotalNorm(tensors, params)
    IN  [p \in TensorIds |->
            IF p \in SeqSet(params)
            THEN [tensors[p] EXCEPT !.grad = ClipOne(tensors[p].grad, norm, max_norm)]
            ELSE tensors[p]]

\* ------------------------------------------------------------- lr scheduler

\* The rate at step t: lr_init at 0, lr_final from max_steps on, decreasing
\* in between.
ScheduleRate(lr_init, cfg, t) ==
    IF t >= cfg.max_steps THEN cfg.lr_final
    ELSE lr_init - (((lr_init - cfg.lr_final) * t) \div cfg.max_steps)

\* scheduler_config.setup().get_scheduler(optimizer, lr_init): bound to the
\* group's optimizer, at step 0 with the rate lr_init.
get_scheduler(cfg, lr_init) ==
    [cfg |-> cfg, base_lr |-> lr_init, last_epoch |-> 0, last_lr |-> lr_init]

\* scheduler.step(): one unit further, and the optimizer's lr set to the rate there.
SchedStep(w, g) ==
    LET s  == Get(w.schedulers, g)
        e  == s.last_epoch + 1
        lr == ScheduleRate(s.base_lr, s.cfg, e)
        o  == Get(w.optimizers, g)
    IN  [w EXCEPT !.schedulers = Put(w.schedulers, g, [s EXCEPT !.last_epoch = e, !.last_lr = lr]),
                  !.optimizers = Put(w.optimizers, g, [o EXCEPT !.lr = lr])]

SchedStateDict(s) == [base_lr |-> s.base_lr, last_epoch |-> s.last_epoch, last_lr |-> s.last_lr]

SchedLoadStateDict(s, sd) ==
    [s EXCEPT !.base_lr = sd.base_lr, !.last_epoch = sd.last_epoch, !.last_lr = sd.last_lr]

\* ------------------------------------------------------ Optimizers.__init__

\* The deprecation test applied to whatever group has no entry.
IsLegacy_AnyName(cfg, name) == ~Has(cfg, name)

\* param_group_name == "camera_opt" and "camera_opt" not in config (line 97).
IsLegacy(cfg, name) == name = "camera_opt" /\ ~Has(cfg, "camera_opt")

\* InitGroup with the legacy entry used for this construction only, the
\* caller's mapping left as it was.
InitGroup_NoWrite(st, name, params) ==
    LET legacy == IsLegacy(st.config, name)
        cfg == IF legacy THEN Put(st.config, name, LegacyEntry) ELSE st.config
        s1 == [st EXCEPT !.warned = IF legacy THEN st.warned + 1 ELSE st.warned]
    IN  IF ~Has(cfg, name)
        THEN [s1 EXCEPT !.err = ConfigError(name, Keys(cfg))]
        ELSE LET entry == Get(cfg, name)
                 lr_init == entry.optimizer.lr
                 opt == setup(entry.optimizer, params)
                 s2 == [s1 EXCEPT !.optimizers = Put(s1.optimizers, name, opt),
                                  !.parameters = Put(s1.parameters, name, params)]
             IN  IF "scheduler" \notin DOMAIN entry
                 THEN [s2 EXCEPT !.err = KeyError("scheduler")]
                 ELSE IF Truthy(entry.scheduler)
                 THEN [s2 EXCEPT !.schedulers =
                          Put(s2.schedulers, name, get_scheduler(entry.scheduler, lr_init))]
                 ELSE s2

\* One iteration of the loop over param_groups.items() (lines 95-123).  st is
\* the construction so far: the caller's config mapping (written to by the
\* legacy path), the three mappings of self, the number of warnings printed
\* and the exception raised, if any.
InitGroup(st, name, params) ==
    LET legacy == IsLegacy(st.config, name)
        cfg == IF legacy THEN Put(st.config, name, LegacyEntry) ELSE st.config
        s1 == [st EXCEPT !.config = cfg,
                         !.warned = IF legacy THEN st.warned + 1 ELSE st.warned]
    IN  IF ~Has(cfg, name)
        THEN [s1 EXCEPT !.err = ConfigError(name, Keys(cfg))]
        ELSE LET entry == Get(cfg, name)
                 lr_init == entry.optimizer.lr
                 opt == setup(entry.optimizer, params)
                 s2 == [s1 EXCEPT !.optimizers = Put(s1.optimizers, name, opt),
                                  !.parameters = Put(s1.parameters, name, params)]
             IN  IF "scheduler" \notin DOMAIN entry
                 THEN [s2 EXCEPT !.err = KeyError("scheduler")]
                 ELSE IF Truthy(entry.scheduler)
                 THEN [s2 EXCEPT !.schedulers =
                          Put(s2.schedulers, name, get_scheduler(entry.scheduler, lr_init))]
                 ELSE s2

RECURSIVE InitLoop(_, _, _)
InitLoop(st, groups, i) ==
    IF i > Len(groups) \/ st.err # NoError THEN st
    ELSE InitLoop(InitGroup(st, groups[i].k, groups[i].v), groups, i + 1)

\* Optimizers(config, param_groups).
Optimizers_init(cfg, groups) ==
    InitLoop([config |-> cfg, optimizers |-> EmptyDict, schedulers |-> EmptyDict,
              parameters |-> EmptyDict, warned |-> 0, err |-> NoError], groups, 1)

\* The coordinator a successful construction leaves, with the tensors its
\* parameter lists refer to.
World(st, tensors) ==
    [optimizers |-> st.optimizers, schedulers |-> st.schedulers,
     parameters |-> st.parameters, tensors |-> tensors]

NoWorld == World([optimizers |-> EmptyDict, schedulers |-> EmptyDict,
                  parameters |-> EmptyDict], FreshTensors)

\* --------------------------------------------------- torch.cuda.amp.GradScaler

\* What the coordinator and its collaborators did during one call, in order.
Event(ev, g, a, b) == [ev |-> ev, g |-> g, a |-> a, b |-> b]

\* A call in progress: the coordinator, the scaler's per-optimizer record
\* (stage and found_inf, keyed by the optimizer), the events and the
\* exception that ended it, if any.
Call(w, sc) == [w |-> w, sc |-> sc, events |-> <<>>, err |-> NoError]

\* The scaler as update() leaves it: every optimizer READY, nothing recorded.
FreshScaler == [stage |-> [g \in Names |-> "READY"], found_inf |-> [g \in Names |-> FALSE]]

\* _unscale_grads_: every gradient of the optimizer divided by the scale.
UnscaleGrads(tensors, params) ==
    [p \in TensorIds |->
        IF p \in SeqSet(params) /\ tensors[p].grad.tag = "num"
        THEN [tensors[p] EXCEPT !.grad = Num(TruncDiv(tensors[p].grad.v, ScaleFactor))]
        ELSE tensors[p]]

FoundInf(tensors, params) == \E x \in GradsOf(tensors, params) : ~IsFinite(x)

\* grad_scaler.unscale_(optimizer): refused on an optimizer already unscaled
\* or stepped since the last update().
unscale_(c, g) ==
    LET ps == Get(c.w.optimizers, g).params
        c1 == [c EXCEPT !.events = Append(c.events, Event("unscale_", g, 0, 0))]
    IN  IF c.sc.stage[g] = "UNSCALED"
        THEN [c1 EXCEPT !.err = ScalerError("unscale_() has already been called")]
        ELSE IF c.sc.stage[g] = "STEPPED"
        THEN [c1 EXCEPT !.err = ScalerError("unscale_() is being called after step()")]
        ELSE [c1 EXCEPT !.sc.found_inf[g] = FoundInf(c.w.tensors, ps),
                        !.sc.stage[g] = "UNSCALED",
                        !.w.tensors = UnscaleGrads(c.w.tensors, ps)]

\* grad_scaler.step(optimizer): unscales first when unscale_ was not called,
\* then steps the optimizer unless a non-finite gradient was found.
ScalerStep(c, g) ==
    LET ps == Get(c.w.optimizers, g).params
        c1 == [c EXCEPT !.events = Append(c.events, Event("scaler.step", g, 0, 0))]
    IN  IF c.sc.stage[g] = "STEPPED"
        THEN [c1 EXCEPT !.err = ScalerError("step() has already been called")]
        ELSE LET c2 == IF c.sc.stage[g] = "READY"
                       THEN [c1 EXCEPT !.sc.found_inf[g] = FoundInf(c.w.tensors, ps),
                                       !.w.tensors = UnscaleGrads(c.w.tensors, ps)]
                       ELSE c1
             IN  IF ~AnyGrad(c.w.tensors, ps)
                 THEN [c2 EXCEPT !.err = AssertionError("No inf checks were recorded")]
                 ELSE IF c2.sc.found_inf[g]
                 THEN [c2 EXCEPT !.sc.stage[g] = "STEPPED"]
                 ELSE [c2 EXCEPT !.sc.stage[g] = "STEPPED", !.w = OptStep(c2.w, g)]

\* ------------------------------------------------------ Optimizers: stepping

\* ScaledGroup with the optimizer stepped directly instead of through the
\* scaler: a non-finite gradient no longer skips the group.
ScaledGroup_DirectStep(cfg, c, g) ==
    LET max_norm == Get(cfg, g).optimizer.max_norm
        c1 == IF max_norm # NoMaxNorm THEN unscale_(c, g) ELSE c
        c2 == IF c1.err = NoError /\ max_norm # NoMaxNorm
              THEN [c1 EXCEPT !.w.tensors = clip_grad_norm_(c1.w.tensors,
                                                Get(c1.w.parameters, g), max_norm[1]),
                              !.events = Append(c1.events, Event("clip", g, max_norm[1], 0))]
              ELSE c1
    IN  IF c2.err = NoError /\ AnyGrad(c2.w.tensors, Get(c2.w.optimizers, g).params)
        THEN [c2 EXCEPT !.w = OptStep(c2.w, g),
                        !.events = Append(c2.events, Event("scaler.step", g, 0, 0))]
        ELSE c2

\* ScaledGroup with unscale_ called for every group, clipped or not.
ScaledGroup_AlwaysUnscale(cfg, c, g) ==
    LET max_norm == Get(cfg, g).optimizer.max_norm
        c1 == unscale_(c, g)
        c2 == IF c1.err = NoError /\ max_norm # NoMaxNorm
              THEN [c1 EXCEPT !.w.tensors = clip_grad_norm_(c1.w.tensors,
                                                Get(c1.w.parameters, g), max_norm[1]),
                              !.events = Append(c1.events, Event("clip", g, max_norm[1], 0))]
              ELSE c1
    IN  IF c2.err = NoError /\ AnyGrad(c2.w.tensors, Get(c2.w.optimizers, g).params)
        THEN ScalerStep(c2, g)
        ELSE c2

\* ScaledGroup with the gradients clipped before they are unscaled.
ScaledGroup_ClipFirst(cfg, c, g) ==
    LET max_norm == Get(cfg, g).optimizer.max_norm
        c1 == IF max_norm # NoMaxNorm
              THEN [c EXCEPT !.w.tensors = clip_grad_norm_(c.w.tensors,
                                               Get(c.w.parameters, g), max_norm[1]),
                             !.events = Append(c.events, Event("clip", g, max_norm[1], 0))]
              ELSE c
        c2 == IF max_norm # NoMaxNorm THEN unscale_(c1, g) ELSE c1
    IN  IF c2.err = NoError /\ AnyGrad(c2.w.tensors, Get(c2.w.optimizers, g).params)
        THEN ScalerStep(c2, g)
        ELSE c2

\* ScaledGroup without the test for a gradient: every group goes to the
\* scaler's step.
ScaledGroup_NoGradCheck(cfg, c, g) ==
    LET max_norm == Get(cfg, g).optimizer.max_norm
        c1 == IF max_norm # NoMaxNorm THEN unscale_(c, g) ELSE c
        c2 == IF c1.err = NoError /\ max_norm # NoMaxNorm
              THEN [c1 EXCEPT !.w.tensors = clip_grad_norm_(c1.w.tensors,
                                                Get(c1.w.parameters, g), max_norm[1]),
                              !.events = Append(c1.events, Event("clip", g, max_norm[1], 0))]
              ELSE c1
    IN  IF c2.err = NoError THEN ScalerStep(c2, g) ELSE c2

\* ScaledGroup with the test made on the gradients' values: a group is
\* stepped when some gradient of it is not zero.
ScaledGroup_ValueCheck(cfg, c, g) ==
    LET max_norm == Get(cfg, g).optimizer.max_norm
        c1 == IF max_norm # NoMaxNorm THEN unscale_(c, g) ELSE c
        c2 == IF c1.err = NoError /\ max_norm # NoMaxNorm
              THEN [c1 EXCEPT !.w.tensors = clip_grad_norm_(c1.w.tensors,
                                                Get(c1.w.parameters, g), max_norm[1]),
                              !.events = Append(c1.events, Event("clip", g, max_norm[1], 0))]
              ELSE c1
    IN  IF c2.err = NoError
           /\ \E x \in GradsOf(c2.w.tensors, Get(c2.w.optimizers, g).params) : x # Num(0)
        THEN ScalerStep(c2, g)
        ELSE c2

\* The body of optimizer_scaler_step_some's loop for one group with a live
\* optimizer (lines 175-180).
ScaledGroup(cfg, c, g) ==
    LET max_norm == Get(cfg, g).optimizer.max_norm
        c1 == IF max_norm # NoMaxNorm THEN unscale_(c, g) ELSE c
        c2 == IF c1.err = NoError /\ max_norm # NoMaxNorm
              THEN [c1 EXCEPT !.w.tensors = clip_grad_norm_(c1.w.tensors,
                                                Get(c1.w.parameters, g), max_norm[1]),
                              !.events = Append(c1.events, Event("clip", g, max_norm[1], 0))]
              ELSE c1
    IN  IF c2.err = NoError /\ AnyGrad(c2.w.tensors, Get(c2.w.optimizers, g).params)
        THEN ScalerStep(c2, g)
        ELSE c2

\* for param_group in param_groups: optimizer = self.optimizers[param_group]; ...
RECURSIVE ScaledLoop(_, _, _, _)
ScaledLoop(cfg, c, names, i) ==
    IF i > Len(names) \/ c.err # NoError THEN c
    ELSE IF ~Has(c.w.optimizers, names[i])
    THEN [c EXCEPT !.err = KeyError(names[i])]
    ELSE ScaledLoop(cfg, ScaledGroup(cfg, c, names[i]), names, i + 1)

\* optimizer_scaler_step_some that walks self.optimizers instead of the names
\* it was given.
optimizer_scaler_step_some_AllGroups(cfg, w, grad_scaler, param_groups_) ==
    ScaledLoop(cfg, Call(w, grad_scaler), Keys(w.optimizers), 1)

optimizer_scaler_step_some(cfg, w, grad_scaler, param_groups_) ==
    ScaledLoop(cfg, Call(w, grad_scaler), param_groups_, 1)

\* The body of optimizer_scaler_step_all's loop with the clip left out.
ScaledGroupAll_NoClip(cfg, c, g) ==
    LET max_norm == Get(cfg, g).optimizer.max_norm
        c1 == IF max_norm # NoMaxNorm THEN unscale_(c, g) ELSE c
    IN  IF c1.err = NoError /\ AnyGrad(c1.w.tensors, Get(c1.w.optimizers, g).params)
        THEN ScalerStep(c1, g)
        ELSE c1

\* The body of optimizer_scaler_step_all's own loop (lines 160-165), for the
\* optimizer the iteration over self.optimizers.items() yields under name g.
ScaledGroupAll(cfg, c, g) ==
    LET optimizer == Get(c.w.optimizers, g)
        max_norm == Get(cfg, g).optimizer.max_norm
        unscaled == IF max_norm # NoMaxNorm THEN unscale_(c, g) ELSE c
        clipped == IF unscaled.err = NoError /\ max_norm # NoMaxNorm
                   THEN [unscaled EXCEPT
                            !.w.tensors = clip_grad_norm_(unscaled.w.tensors,
                                              Get(unscaled.w.parameters, g), max_norm[1]),
                            !.events = Append(unscaled.events, Event("clip", g, max_norm[1], 0))]
                   ELSE unscaled
    IN  IF clipped.err # NoError THEN clipped
        ELSE IF AnyGrad(clipped.w.tensors, optimizer.params) THEN ScalerStep(clipped, g)
        ELSE clipped

\* for param_group, optimizer in self.optimizers.items(): ...
RECURSIVE ScaledAllLoop(_, _, _, _)
ScaledAllLoop(cfg, c, items, i) ==
    IF i > Len(items) \/ c.err # NoError THEN c
    ELSE ScaledAllLoop(cfg, ScaledGroupAll(cfg, c, items[i].k), items, i + 1)

optimizer_scaler_step_all(cfg, w, grad_scaler) ==
    ScaledAllLoop(cfg, Call(w, grad_scaler), w.optimizers, 1)

\* self.optimizers[param_group_name].step()
optimizer_step(cfg, w, g) ==
    LET c == Call(w, FreshScaler)
    IN  IF ~Has(w.optimizers, g) THEN [c EXCEPT !.err = KeyError(g)]
        ELSE [c EXCEPT !.w = OptStep(w, g), !.events = <<Event("step", g, 0, 0)>>]

\* StepGroup with the optimizer stepped before its gradients are clipped.
StepGroup_StepFirst(cfg, c, g) ==
    LET max_norm == Get(cfg, g).optimizer.max_norm
        c1 == [c EXCEPT !.w = OptStep(c.w, g), !.events = Append(c.events, Event("step", g, 0, 0))]
    IN  IF max_norm # NoMaxNorm
        THEN [c1 EXCEPT !.w.tensors = clip_grad_norm_(c1.w.tensors,
                                          Get(c1.w.parameters, g), max_norm[1]),
                        !.events = Append(c1.events, Event("clip", g, max_norm[1], 0))]
        ELSE c1

\* The body of the loop of optimizer_step_all for one group (lines 186-189).
StepGroup(cfg, c, g) ==
    LET max_norm == Get(cfg, g).optimizer.max_norm
        c1 == IF max_norm # NoMaxNorm
              THEN [c EXCEPT !.w.tensors = clip_grad_norm_(c.w.tensors,
                                               Get(c.w.parameters, g), max_norm[1]),
                             !.events = Append(c.events, Event("clip", g, max_norm[1], 0))]
              ELSE c
    IN  [c1 EXCEPT !.w = OptStep(c1.w, g), !.events = Append(c1.events, Event("step", g, 0, 0))]

RECURSIVE StepLoop(_, _, _, _)
StepLoop(cfg, c, names, i) ==
    IF i > Len(names) THEN c
    ELSE StepLoop(cfg, StepGroup(cfg, c, names[i]), names, i + 1)

\* The keys of a mapping that are in S, in the mapping's order.
Restrict(keys, S) == SelectSeq(keys, LAMBDA k : k \in S)

\* optimizer_step_all taking the groups in the order of the configuration mapping.
optimizer_step_all_ConfigOrder(cfg, w) ==
    StepLoop(cfg, Call(w, FreshScaler), Restrict(Keys(cfg), KeySet(w.optimizers)), 1)

optimizer_step_all(cfg, w) == StepLoop(cfg, Call(w, FreshScaler), Keys(w.optimizers), 1)

\* ------------------------------------------------------- Optimizers: zeroing

RECURSIVE ZeroLoop(_, _, _)
ZeroLoop(c, names, i) ==
    IF i > Len(names) \/ c.err # NoError THEN c
    ELSE IF ~Has(c.w.optimizers, names[i])
    THEN [c EXCEPT !.err = KeyError(names[i])]
    ELSE ZeroLoop([c EXCEPT !.w = OptZeroGrad(c.w, names[i]),
                            !.events = Append(c.events, Event("zero_grad", names[i], 0, 0))],
                  names, i + 1)

zero_grad_all(cfg, w) == ZeroLoop(Call(w, FreshScaler), Keys(w.optimizers), 1)

\* zero_grad_some that clears every group, named or not.
zero_grad_some_All(cfg, w, param_groups_) == ZeroLoop(Call(w, FreshScaler), Keys(w.optimizers), 1)

zero_grad_some(cfg, w, param_groups_) == ZeroLoop(Call(w, FreshScaler), param_groups_, 1)

\* ---------------------------------------------------- Optimizers: schedulers

\* if "scheduler" in self.config[param_group_name]: self.schedulers[...].step()
scheduler_step(cfg, w, g) ==
    LET c == Call(w, FreshScaler)
    IN  IF ~Has(cfg, g) THEN [c EXCEPT !.err = KeyError(g)]
        ELSE IF "scheduler" \notin DOMAIN Get(cfg, g) THEN c
        ELSE IF ~Has(w.schedulers, g) THEN [c EXCEPT !.err = KeyError(g)]
        ELSE [c EXCEPT !.w = SchedStep(w, g), !.events = <<Event("sched.step", g, 0, 0)>>]

\* The loop of scheduler_step_all with the rate read before the scheduler
\* is stepped.
RECURSIVE SchedLoop_ReportFirst(_, _, _, _)
SchedLoop_ReportFirst(c, names, step, i) ==
    IF i > Len(names) THEN c
    ELSE LET lr == Get(c.w.schedulers, names[i]).last_lr
             w1 == SchedStep(c.w, names[i])
         IN  SchedLoop_ReportFirst(
                 [c EXCEPT !.w = w1,
                           !.events = c.events \o <<Event("sched.step", names[i], 0, 0),
                                                    Event("put_scalar", names[i], lr, step)>>],
                 names, step, i + 1)

\* One scheduler of scheduler_step_all: step it, read get_last_lr()[0], report
\* it as learning_rate/<name> at the supplied step.
RECURSIVE SchedLoop(_, _, _, _)
SchedLoop(c, names, step, i) ==
    IF i > Len(names) THEN c
    ELSE LET w1 == SchedStep(c.w, names[i])
             lr == Get(w1.schedulers, names[i]).last_lr
         IN  SchedLoop([c EXCEPT !.w = w1,
                                 !.events = c.events \o <<Event("sched.step", names[i], 0, 0),
                                                          Event("put_scalar", names[i], lr, step)>>],
                       names, step, i + 1)

scheduler_step_all(cfg, w, step) == SchedLoop(Call(w, FreshScaler), Keys(w.schedulers), step, 1)

\* ---------------------------------------------------- Optimizers: checkpoints

\* for k, v in loaded_state.items(): self.optimizers[k].load_state_dict(v)
RECURSIVE LoadOptLoop(_, _, _)
LoadOptLoop(c, loaded_state, i) ==
    IF i > Len(loaded_state) \/ c.err # NoError THEN c
    ELSE LET k == loaded_state[i].k
             v == loaded_state[i].v
         IN  IF ~Has(c.w.optimizers, k) THEN [c EXCEPT !.err = KeyError(k)]
             ELSE IF ~OptLoadable(Get(c.w.optimizers, k), v)
             THEN [c EXCEPT !.err = ValueError("parameter group size mismatch")]
             ELSE LoadOptLoop(
                    [c EXCEPT !.w.optimizers =
                                 Put(c.w.optimizers, k, OptLoadStateDict(Get(c.w.optimizers, k), v)),
                              !.events = Append(c.events, Event("load", k, 0, 0))],
                    loaded_state, i + 1)

\* load_optimizers that stops one entry short.
load_optimizers_SkipLast(cfg, w, loaded_state) ==
    LoadOptLoop(Call(w, FreshScaler),
                [i \in 1..(Len(loaded_state) - 1) |-> loaded_state[i]], 1)

\* load_optimizers that looks for an unknown name before it loads anything.
load_optimizers_Atomic(cfg, w, loaded_state) ==
    LET unknown == {i \in 1..Len(loaded_state) : ~Has(w.optimizers, loaded_state[i].k)}
    IN  IF unknown = {} THEN LoadOptLoop(Call(w, FreshScaler), loaded_state, 1)
        ELSE [Call(w, FreshScaler) EXCEPT
                 !.err = KeyError(loaded_state[CHOOSE i \in unknown : \A j \in unknown : i <= j].k)]

load_optimizers(cfg, w, loaded_state) == LoadOptLoop(Call(w, FreshScaler), loaded_state, 1)

\* for k, v in loaded_state.items(): self.schedulers[k].load_state_dict(v)
RECURSIVE LoadSchedLoop(_, _, _)
LoadSchedLoop(c, loaded_state, i) ==
    IF i > Len(loaded_state) \/ c.err # NoError THEN c
    ELSE LET k == loaded_state[i].k
             v == loaded_state[i].v
         IN  IF ~Has(c.w.schedulers, k) THEN [c EXCEPT !.err = KeyError(k)]
             ELSE LoadSchedLoop(
                    [c EXCEPT !.w.schedulers =
                                 Put(c.w.schedulers, k, SchedLoadStateDict(Get(c.w.schedulers, k), v)),
                              !.events = Append(c.events, Event("load", k, 0, 0))],
                    loaded_state, i + 1)

\* load_schedulers that passes over the entries of groups without a scheduler.
load_schedulers_Lenient(cfg, w, loaded_state) ==
    LoadSchedLoop(Call(w, FreshScaler),
                  SelectSeq(loaded_state, LAMBDA e : Has(w.schedulers, e.k)), 1)

load_schedulers(cfg, w, loaded_state) == LoadSchedLoop(Call(w, FreshScaler), loaded_state, 1)

\* ------------------------------------------------- the trainer's checkpoints

\* {k: v.state_dict() for k, v in optimizers.optimizers.items()}
save_optimizers(w) ==
    [i \in 1..Len(w.optimizers) |->
        [k |-> w.optimizers[i].k, v |-> OptStateDict(w.optimizers[i].v)]]

\* {k: v.state_dict() for k, v in optimizers.schedulers.items()}
save_schedulers(w) ==
    [i \in 1..Len(w.schedulers) |->
        [k |-> w.schedulers[i].k, v |-> SchedStateDict(w.schedulers[i].v)]]

\* A run resumed from a checkpoint of w: a coordinator built anew from the
\* same configuration and parameter groups, then given the saved optimizer
\* and scheduler states.
Restore(cfg, groups, w) ==
    LET fresh == World(Optimizers_init(cfg, groups), w.tensors)
        o == load_optimizers(cfg, fresh, save_optimizers(w))
    IN  load_schedulers(cfg, o.w, save_schedulers(w)).w

\* ------------------------------------------------------------------- inputs

\* The configuration entries the model draws from: clipped with a schedule,
\* unclipped with scheduler None, unclipped with no "scheduler" key, clipped
\* with scheduler None.
EntrySched ==
    [optimizer |-> OptimizerConfig("Adam", 4, "1e-08", <<2>>),
     scheduler |-> ExponentialDecaySchedulerConfig(2, 2)]

EntryNone ==
    [optimizer |-> OptimizerConfig("AdamW", 3, "1e-08", NoMaxNorm),
     scheduler |-> NoScheduler]

EntryAbsent == [optimizer |-> OptimizerConfig("RAdam", 3, "1e-08", NoMaxNorm)]

EntryClip ==
    [optimizer |-> OptimizerConfig("Adam", 3, "1e-08", <<2>>),
     scheduler |-> NoScheduler]

Entries == {EntrySched, EntryNone, EntryAbsent, EntryClip}

\* Lists of distinct names of length n.
DistinctLists(S, n) == {s \in [1..n -> S] : \A i, j \in 1..n : s[i] = s[j] => i = j}

KeyLists == UNION {DistinctLists(Names, n) : n \in 0..Cardinality(Names)}

\* Every configuration mapping over the names and entries.
AllConfigs ==
    UNION {{[i \in 1..Len(ks) |-> [k |-> ks[i], v |-> vs[i]]] : vs \in [1..Len(ks) -> Entries]}
           : ks \in KeyLists}

\* The parameter lists a mapping of n groups hands out: disjoint ones, and
\* (a caller error) two lists sharing tensor 2.
TensorLists(n) ==
    CASE n = 0 -> {<<>>}
      [] n = 1 -> {<< <<1, 2>> >>}
      [] n = 2 -> {<< <<1>>, <<2>> >>, << <<1, 2>>, <<2>> >>}
      [] OTHER -> {<< <<1>>, <<2>>, <<>> >>}

AllParamGroups ==
    UNION {{[i \in 1..Len(ks) |-> [k |-> ks[i], v |-> ps[i]]] : ps \in TensorLists(Len(ks))}
           : ks \in KeyLists}

Dict2(k1, v1, k2, v2) == <<[k |-> k1, v |-> v1], [k |-> k2, v |-> v2]>>

\* The coordinators whose operations are explored.
ScenarioConfigs ==
    {Dict2("fields", EntrySched, "proposal", EntryNone),
     <<[k |-> "fields", v |-> EntryClip]>>}

ScenarioParamGroups ==
    {Dict2("fields", <<1>>, "proposal", <<2>>),
     Dict2("proposal", <<2>>, "fields", <<1>>),
     Dict2("fields", <<1, 2>>, "proposal", <<2>>),
     Dict2("fields", <<1>>, "camera_opt", <<2>>),
     <<[k |-> "fields", v |-> <<2, 1>>]>>}

\* Name lists handed to the subset operations: any names, repeated or unknown.
NameLists == UNION {[1..n -> Names] : n \in 0..MaxNames}

\* The gradients one backward pass leaves on a tensor (scaled by the scaler):
\* none, zero, one above every max_norm, a non-finite one.
GradInputs == {NoGrad, Num(0), Num(3 * ScaleFactor), Inf}

\* Per-group state of a checkpoint written by some earlier run of the model.
CannedOptState(n) == [state |-> [i \in 1..n |-> [step |-> 1, exp_avg |-> Num(1)]], lr |-> 1]

CannedSchedState == [base_lr |-> 4, last_epoch |-> 1, last_lr |-> 3]

LoadKeyLists == UNION {DistinctLists(Names, n) : n \in 0..MaxNames}

LoadedOptimizers(w, ks) ==
    [i \in 1..Len(ks) |->
        [k |-> ks[i],
         v |-> CannedOptState(IF Has(w.optimizers, ks[i])
                              THEN Len(Get(w.optimizers, ks[i]).params) ELSE 1)]]

LoadedSchedulers(ks) == [i \in 1..Len(ks) |-> [k |-> ks[i], v |-> CannedSchedState]]

\* ------------------------------------------------------------ state machine

NoCall == [op |-> "none", names |-> <<>>, step |-> 0, events |-> <<>>, err |-> NoError]

\* Before construction: the caller holds a configuration mapping and a
\* parameter-group mapping over fresh tensors.
InitWith(cfgs, groups) ==
    /\ phase = "new"
    /\ config \in cfgs
    /\ param_groups \in groups
    /\ self = NoWorld
    /\ warned = 0
    /\ resumed = [active |-> FALSE, w |-> NoWorld, at |-> 0]
    /\ last = NoCall
    /\ nops = 0

Init == InitWith(ScenarioConfigs, ScenarioParamGroups)

InitAny == InitWith(AllConfigs, AllParamGroups)

\* Optimizers(config, param_groups): the legacy path writes to the caller's
\* config; an exception leaves no coordinator.
Construct ==
    /\ phase = "new"
    /\ LET st == Optimizers_init(config, param_groups)
       IN  /\ config' = st.config
           /\ warned' = st.warned
           /\ phase' = IF st.err = NoError THEN "ready" ELSE "failed"
           /\ self' = IF st.err = NoError THEN World(st, FreshTensors) ELSE NoWorld
           /\ last' = [NoCall EXCEPT !.op = "__init__", !.names = Keys(param_groups),
                                     !.err = st.err]
    /\ UNCHANGED <<param_groups, resumed, nops>>

\* One call on the live coordinator, with result r; the resumed run, when
\* there is one, makes the same call with result rr.
Act(op, names, step, r, rr) ==
    /\ phase = "ready"
    /\ nops < MaxOps
    /\ self' = r.w
    /\ resumed' = IF resumed.active THEN [resumed EXCEPT !.w = rr.w] ELSE resumed
    /\ last' = [op |-> op, names |-> names, step |-> step, events |-> r.events, err |-> r.err]
    /\ nops' = nops + 1
    /\ UNCHANGED <<phase, config, param_groups, warned>>

DoOptimizerStep ==
    \E g \in Names :
        Act("optimizer_step", <<g>>, 0,
            optimizer_step(config, self, g), optimizer_step(config, resumed.w, g))

DoSchedulerStep ==
    \E g \in Names :
        Act("scheduler_step", <<g>>, 0,
            scheduler_step(config, self, g), scheduler_step(config, resumed.w, g))

DoZeroGradAll ==
    Act("zero_grad_all", Keys(self.optimizers), 0,
        zero_grad_all(config, self), zero_grad_all(config, resumed.w))

DoZeroGradSome ==
    \E names \in NameLists :
        Act("zero_grad_some", names, 0,
            zero_grad_some(config, self, names), zero_grad_some(config, resumed.w, names))

DoScalerStepAll ==
    Act("optimizer_scaler_step_all", Keys(self.optimizers), 0,
        optimizer_scaler_step_all(config, self, FreshScaler),
        optimizer_scaler_step_all(config, resumed.w, FreshScaler))

DoScalerStepSome ==
    \E names \in NameLists :
        Act("optimizer_scaler_step_some", names, 0,
            optimizer_scaler_step_some(config, self, FreshScaler, names),
            optimizer_scaler_step_some(config, resumed.w, FreshScaler, names))

DoStepAll ==
    Act("optimizer_step_all", Keys(self.optimizers), 0,
        optimizer_step_all(config, self), optimizer_step_all(config, resumed.w))

DoSchedulerStepAll ==
    \E step \in 0..MaxStep :
        Act("scheduler_step_all", Keys(self.schedulers), step,
            scheduler_step_all(config, self, step), scheduler_step_all(config, resumed.w, step))

DoLoadOptimizers ==
    \E ks \in LoadKeyLists :
        Act("load_optimizers", ks, 0,
            load_optimizers(config, self, LoadedOptimizers(self, ks)),
            load_optimizers(config, resumed.w, LoadedOptimizers(self, ks)))

DoLoadSchedulers ==
    \E ks \in LoadKeyLists :
        Act("load_schedulers", ks, 0,
            load_schedulers(config, self, LoadedSchedulers(ks)),
            load_schedulers(config, resumed.w, LoadedSchedulers(ks)))

\* loss.backward() outside the coordinator: every tensor gets its gradient.
Backward ==
    /\ phase = "ready"
    /\ nops < MaxOps
    /\ \E gr \in [TensorIds -> GradInputs] :
          LET t(w) == [p \in TensorIds |-> [w.tensors[p] EXCEPT !.grad = gr[p]]]
          IN  /\ self' = [self EXCEPT !.tensors = t(self)]
              /\ resumed' = IF resumed.active
                            THEN [resumed EXCEPT !.w.tensors = t(resumed.w)] ELSE resumed
    /\ nops' = nops + 1
    /\ last' = [NoCall EXCEPT !.op = "backward"]
    /\ UNCHANGED <<phase, config, param_groups, warned>>

\* The run is checkpointed and resumed beside the live one.
Resume ==
    /\ phase = "ready"
    /\ ~resumed.active
    /\ resumed' = [active |-> TRUE, w |-> Restore(config, param_groups, self), at |-> nops]
    /\ last' = [NoCall EXCEPT !.op = "resume"]
    /\ UNCHANGED <<phase, config, param_groups, self, warned, nops>>

Next ==
    \/ Construct
    \/ DoOptimizerStep
    \/ DoSchedulerStep
    \/ DoZeroGradAll
    \/ DoZeroGradSome
    \/ DoScalerStepAll
    \/ DoScalerStepSome
    \/ DoStepAll
    \/ DoSchedulerStepAll
    \/ DoLoadOptimizers
    \/ DoLoadSchedulers
    \/ Backward

Spec == Init /\ [][Next]_vars

\* The operations a training run makes between checkpoints, with a resumed
\* run beside the live one.
NextResume ==
    \/ Construct
    \/ Resume
    \/ DoOptimizerStep
    \/ DoSchedulerStep
    \/ DoScalerStepAll
    \/ DoScalerStepSome
    \/ DoStepAll
    \/ DoSchedulerStepAll
    \/ Backward

SpecResume == Init /\ [][NextResume]_vars

\* Construction alone, over every configuration and parameter-group mapping.
SpecConstruct == InitAny /\ [][Construct]_vars

\* =================================================================== claims

Live(w) == KeySet(w.optimizers)

GroupParams(w, g) == SeqSet(Get(w.parameters, g))

\* No tensor belongs to two groups (the data model's rule for parameter lists).
Disjoint(w) ==
    \A i, j \in 1..Len(w.parameters) :
        i # j => SeqSet(w.parameters[i].v) \cap SeqSet(w.parameters[j].v) = {}

DupFree(names) == \A i, j \in 1..Len(names) : names[i] = names[j] => i = j

ScaledOps == {"optimizer_scaler_step_all", "optimizer_scaler_step_some"}

\* Everything the coordinator holds for group g, and g's tensors.
GroupView(w, g) ==
    [optimizer |-> Get(w.optimizers, g),
     scheduler |-> IF Has(w.schedulers, g) THEN <<Get(w.schedulers, g)>> ELSE <<>>,
     parameters |-> Get(w.parameters, g),
     tensors |-> [p \in GroupParams(w, g) |-> w.tensors[p]]]

Steps(w, g) == [p \in GroupParams(w, g) |-> Get(w.optimizers, g).state[p].step]

HasNonFinite(w, g) == \E p \in GroupParams(w, g) : w.tensors[p].grad.tag \in {"inf", "nan"}

AllFinite(w, g) == \A p \in GroupParams(w, g) : w.tensors[p].grad.tag = "num"

\* C1: with disjoint parameter lists, optimizer_scaler_step_some(names)
\* changes nothing of a group outside names: not its optimizer state (so no
\* step counter but those of groups in names can advance), its parameter
\* values, its gradients or its scheduler state; and it adds or drops no group.
C1_SubsetIsolation ==
    [][(last'.op = "optimizer_scaler_step_some" /\ Disjoint(self)) =>
          /\ Live(self') = Live(self)
          /\ \A g \in Live(self) \ SeqSet(last'.names) :
                GroupView(self', g) = GroupView(self, g)]_vars

\* C1's case: a subset call stepped a group of names while another live
\* group, outside names and carrying gradients, stayed at step 0.
C1_Witness ==
    /\ last.op = "optimizer_scaler_step_some"
    /\ last.err = NoError
    /\ Disjoint(self)
    /\ \E g \in SeqSet(last.names) \cap Live(self), h \in Live(self) \ SeqSet(last.names) :
          /\ \A p \in GroupParams(self, g) : Steps(self, g)[p] >= 1
          /\ AllFinite(self, h)
          /\ \A p \in GroupParams(self, h) : Steps(self, h)[p] = 0

\* C2: in one scaled stepping call over distinct groups A and B (disjoint
\* lists), A carrying a non-finite gradient and B only finite ones, A's
\* parameter values and optimizer state stay as they were, every step counter
\* of B advances by exactly one, and the call raises nothing.
C2_SkipPerGroup ==
    [][(last'.op \in ScaledOps /\ Disjoint(self) /\ DupFree(last'.names)
        /\ SeqSet(last'.names) \subseteq Live(self)) =>
          \A A, B \in SeqSet(last'.names) :
              (A # B /\ HasNonFinite(self, A) /\ AllFinite(self, B)) =>
                  /\ last'.err = NoError
                  /\ \A p \in GroupParams(self, A) : self'.tensors[p].data = self.tensors[p].data
                  /\ Get(self'.optimizers, A) = Get(self.optimizers, A)
                  /\ \A p \in GroupParams(self, B) : Steps(self', B)[p] = Steps(self, B)[p] + 1
                  /\ Get(self'.optimizers, B).lr = Get(self.optimizers, B).lr]_vars

\* C2's case: after a scaled call, A still carries a non-finite gradient and
\* was never stepped while B, with finite gradients, was.
C2_Witness ==
    /\ last.op \in ScaledOps
    /\ last.err = NoError
    /\ Disjoint(self)
    /\ \E A, B \in SeqSet(last.names) \cap Live(self) :
          /\ A # B
          /\ HasNonFinite(self, A)
          /\ \A p \in GroupParams(self, A) : Steps(self, A)[p] = 0 /\ self.tensors[p].data = Num(0)
          /\ AllFinite(self, B)
          /\ \A p \in GroupParams(self, B) : Steps(self, B)[p] = 1

\* ---- construction (checked under SpecConstruct)

Built == phase # "new"

\* g had an entry in the configuration mapping the caller passed (the legacy
\* path adds camera_opt's entry to the mapping itself).
Configured(g) == Has(config, g) /\ ~(g = "camera_opt" /\ warned > 0)

Prefix(d, n) == [i \in 1..n |-> d[i]]

Without(d, k) == SelectSeq(d, LAMBDA e : e.k # k)

\* The groups whose scheduler field is a scheduler configuration.
WithScheduler ==
    {g \in KeySet(param_groups) :
        /\ Has(config, g)
        /\ "scheduler" \in DOMAIN Get(config, g)
        /\ Truthy(Get(config, g).scheduler)}

\* C3: when every parameter group has a configuration entry, whatever its
\* scheduler field (a configuration, None, or no such key), construction
\* succeeds with one optimizer and one parameter list per parameter group,
\* in no other name, and a scheduler exactly where one is configured.
C3_ConstructionExact ==
    (Built /\ \A g \in KeySet(param_groups) : Configured(g)) =>
        /\ phase = "ready"
        /\ Keys(self.optimizers) = Keys(param_groups)
        /\ self.parameters = param_groups
        /\ KeySet(self.schedulers) = WithScheduler

\* The parameter groups without an entry that are not the legacy group.
Missing == {i \in 1..Len(param_groups) :
               ~Configured(param_groups[i].k) /\ param_groups[i].k # "camera_opt"}

FirstMissing == CHOOSE i \in Missing : \A j \in Missing : i <= j

\* C4: a parameter group without an entry, other than camera_opt, makes
\* construction fail and leave no coordinator; the error raised on reaching
\* the first such group is the RuntimeError that names it and lists the
\* keys of the configuration mapping, the group not among them.
C4_ConfigurationError ==
    (Built /\ Missing # {}) =>
        /\ phase = "failed"
        /\ self = NoWorld
        /\ Optimizers_init(config, Prefix(param_groups, FirstMissing - 1)).err = NoError =>
              /\ last.err.type = "RuntimeError"
              /\ last.err.arg = param_groups[FirstMissing].k
              /\ last.err.keys = Keys(config)
              /\ last.err.arg \notin SeqSet(last.err.keys)

\* C4's case: the setup error was raised for an unconfigured group after
\* another group or more, and lists at least one configured name.
C4_Witness ==
    /\ phase = "failed"
    /\ last.err.type = "RuntimeError"
    /\ last.err.keys # <<>>
    /\ FirstMissing > 1
    /\ last.err.arg = param_groups[FirstMissing].k

\* camera_opt is a parameter group the caller gave no entry for.
LegacyCase == Has(param_groups, "camera_opt") /\ ~Configured("camera_opt")

\* C5: an unconfigured camera_opt never makes construction fail: it succeeds
\* exactly when it would without that group.  The group then has an
\* optimizer at lr 1e-3 and a scheduler decaying to 1e-4 over 30000 steps
\* from 1e-3, and no other group of a coordinator that was built lacks an entry.
C5_LegacyDefault ==
    Built =>
        /\ LegacyCase =>
              /\ phase = "ready" <=>
                    Optimizers_init(config, Without(param_groups, "camera_opt")).err = NoError
              /\ last.err.arg # "camera_opt"
        /\ (LegacyCase /\ phase = "ready") =>
              /\ Get(self.optimizers, "camera_opt").lr = LegacyLr
              /\ Has(self.schedulers, "camera_opt")
              /\ Get(self.schedulers, "camera_opt").base_lr = LegacyLr
              /\ Get(self.schedulers, "camera_opt").last_lr = LegacyLr
              /\ Get(self.schedulers, "camera_opt").cfg.kind = "ExponentialDecay"
              /\ Get(self.schedulers, "camera_opt").cfg.lr_final = LegacyLrFinal
              /\ Get(self.schedulers, "camera_opt").cfg.max_steps = LegacyMaxSteps
        /\ phase = "ready" =>
              \A g \in KeySet(param_groups) : ~Configured(g) => g = "camera_opt"

\* C5's case: a coordinator of several groups built with camera_opt unconfigured.
C5_Witness ==
    /\ phase = "ready"
    /\ LegacyCase
    /\ Len(param_groups) > 1
    /\ Get(self.optimizers, "camera_opt").lr = LegacyLr
    /\ Has(self.schedulers, "camera_opt")

\* ---- checkpoints

\* C6: a run resumed from a checkpoint (a coordinator built from the same
\* configuration and parameter groups, given the saved optimizer and
\* scheduler states) holds, after any further operations, the optimizer
\* state, scheduler state and parameter values of the uninterrupted run.
C6_CheckpointRoundTrip == resumed.active => resumed.w = self

\* C6's case: the checkpoint was taken after two operations or more, an
\* operation followed it, and some parameter has been updated twice.
C6_Witness ==
    /\ resumed.active
    /\ resumed.at >= 2
    /\ nops > resumed.at
    /\ last.op \in {"optimizer_step", "optimizer_step_all"} \cup ScaledOps
    /\ \E g \in Live(self) : \E p \in GroupParams(self, g) : Steps(self, g)[p] >= 2

\* The first name of names that is not in known.
FirstNotIn(names, known) ==
    names[CHOOSE i \in 1..Len(names) :
             names[i] \notin known /\ \A j \in 1..(i - 1) : names[j] \in known]

\* C7: load_optimizers given state for a name the coordinator has no
\* optimizer for, and load_schedulers given state for a name it has no
\* scheduler for, raise a KeyError for that name.
C7_UnknownGroupRaises ==
    /\ (last.op = "load_optimizers" /\ ~(SeqSet(last.names) \subseteq Live(self))) =>
          /\ last.err.type = "KeyError"
          /\ last.err.arg = FirstNotIn(last.names, Live(self))
    /\ (last.op = "load_schedulers" /\ ~(SeqSet(last.names) \subseteq KeySet(self.schedulers))) =>
          /\ last.err.type = "KeyError"
          /\ last.err.arg = FirstNotIn(last.names, KeySet(self.schedulers))

\* C7's case: scheduler state was loaded for a live group that has no scheduler.
C7_Witness ==
    /\ last.op = "load_schedulers"
    /\ last.err.type = "KeyError"
    /\ last.err.arg \in Live(self) \ KeySet(self.schedulers)

\* C8: load_optimizers given state that lacks a live group, and
\* load_schedulers given state that lacks a live scheduler, raise an error.
C8_MissingGroupRaises ==
    /\ (last.op = "load_optimizers" /\ ~(Live(self) \subseteq SeqSet(last.names))) =>
          last.err # NoError
    /\ (last.op = "load_schedulers" /\ ~(KeySet(self.schedulers) \subseteq SeqSet(last.names))) =>
          last.err # NoError

\* ---- the scaler protocol

Count(ev, g) ==
    Cardinality({i \in 1..Len(last.events) : last.events[i].ev = ev /\ last.events[i].g = g})

MaxNormOf(g) == Get(config, g).optimizer.max_norm

\* A scaled stepping call over live groups, none named twice.
ScaledCall ==
    /\ last.op \in ScaledOps
    /\ DupFree(last.names)
    /\ SeqSet(last.names) \subseteq Live(self)

\* C9 as stated: in a scaled stepping call, unscale_ and the scaler's step
\* are each called exactly once for every selected group.
C9_ScalerOncePerGroup ==
    ScaledCall =>
        \A g \in SeqSet(last.names) : Count("unscale_", g) = 1 /\ Count("scaler.step", g) = 1

\* C9 as amended: in a scaled stepping call, unscale_ is called once for a
\* selected group with a max_norm and never for one without; the scaler's
\* step is called once for a selected group with a gradient that is not None
\* and never for one without; and the call raises nothing.
C9_ScalerAtMostOncePerGroup ==
    ScaledCall =>
        /\ last.err = NoError
        /\ \A g \in SeqSet(last.names) :
              /\ Count("unscale_", g) = IF MaxNormOf(g) # NoMaxNorm THEN 1 ELSE 0
              /\ Count("scaler.step", g) =
                    IF AnyGrad(self.tensors, Get(self.optimizers, g).params) THEN 1 ELSE 0

\* C9's case: one call in which a clipped group without gradients was
\* unscaled and not stepped, and an unclipped group was stepped and not unscaled.
C9_Witness ==
    /\ ScaledCall
    /\ \E g, h \in SeqSet(last.names) :
          /\ Count("unscale_", g) = 1 /\ Count("scaler.step", g) = 0
          /\ Count("unscale_", h) = 0 /\ Count("scaler.step", h) = 1

\* C10: in a scaled stepping call, a clip of a group comes directly after
\* the unscale_ of that group and uses the group's max_norm, the scaler's
\* step of a clipped group comes directly after its clip, an unscale_ is
\* followed by the clip unless it raised, a call that raises nothing
\* unscales every selected clipped group, and a group without max_norm is
\* never unscaled or clipped.
C10_ScaledStepOrder ==
    last.op \in ScaledOps =>
        LET E == last.events
        IN  /\ \A i \in 1..Len(E) :
                  /\ E[i].ev = "clip" =>
                        /\ i > 1 /\ E[i - 1].ev = "unscale_" /\ E[i - 1].g = E[i].g
                        /\ MaxNormOf(E[i].g) = <<E[i].a>>
                  /\ (E[i].ev = "scaler.step" /\ MaxNormOf(E[i].g) # NoMaxNorm) =>
                        i > 1 /\ E[i - 1].ev = "clip" /\ E[i - 1].g = E[i].g
                  /\ E[i].ev = "unscale_" =>
                        \/ i < Len(E) /\ E[i + 1].ev = "clip" /\ E[i + 1].g = E[i].g
                        \/ i = Len(E) /\ last.err # NoError
            /\ \A g \in Live(self) :
                  MaxNormOf(g) = NoMaxNorm => Count("unscale_", g) = 0 /\ Count("clip", g) = 0
            /\ last.err = NoError =>
                  \A g \in SeqSet(last.names) :
                      MaxNormOf(g) # NoMaxNorm => Count("unscale_", g) >= 1

\* C10's case: a call that unscaled, clipped and stepped one group and
\* stepped another that has no max_norm.
C10_Witness ==
    /\ last.op \in ScaledOps
    /\ last.err = NoError
    /\ \E g, h \in SeqSet(last.names) :
          /\ Count("unscale_", g) = 1 /\ Count("clip", g) = 1 /\ Count("scaler.step", g) = 1
          /\ MaxNormOf(h) = NoMaxNorm /\ Count("scaler.step", h) = 1

\* ---- gradient presence

CountIn(E, ev, g) == Cardinality({i \in 1..Len(E) : E[i].ev = ev /\ E[i].g = g})

\* The gradients of g's optimizer are all there and all zero.
AllZero(w, g) ==
    /\ Get(w.optimizers, g).params # <<>>
    /\ \A i \in 1..Len(Get(w.optimizers, g).params) :
          w.tensors[Get(w.optimizers, g).params[i]].grad = Num(0)

\* C11: in a scaled stepping call, a selected group with no gradient that is
\* not None never reaches the scaler's step, and the call leaves its
\* optimizer (state and step counters) and its parameter values as they
\* were; when the names are live and none is repeated, a selected group with
\* a gradient reaches the scaler's step, once.
C11_FrozenNotStepped ==
    [][last'.op \in ScaledOps =>
          \A g \in SeqSet(last'.names) \cap Live(self) :
              /\ ~AnyGrad(self.tensors, Get(self.optimizers, g).params) =>
                    /\ CountIn(last'.events, "scaler.step", g) = 0
                    /\ Get(self'.optimizers, g) = Get(self.optimizers, g)
                    /\ \A p \in GroupParams(self, g) : self'.tensors[p].data = self.tensors[p].data
              /\ (/\ AnyGrad(self.tensors, Get(self.optimizers, g).params)
                  /\ DupFree(last'.names)
                  /\ SeqSet(last'.names) \subseteq Live(self)) =>
                    CountIn(last'.events, "scaler.step", g) = 1]_vars

\* C11's case: one call that left out a group without gradients and stepped
\* a group with a gradient on one of its two parameters only.
C11_Witness ==
    /\ last.op \in ScaledOps
    /\ last.err = NoError
    /\ \E g, h \in SeqSet(last.names) \cap Live(self) :
          /\ g # h
          /\ ~AnyGrad(self.tensors, Get(self.optimizers, g).params)
          /\ Count("scaler.step", g) = 0
          /\ \A p \in GroupParams(self, g) : Steps(self, g)[p] = 0
          /\ AnyGrad(self.tensors, Get(self.optimizers, h).params)
          /\ Count("scaler.step", h) = 1
          /\ \E p \in GroupParams(self, h) : Steps(self, h)[p] = 1

\* ---- optimizer_step_all

Reverse(s) == [i \in 1..Len(s) |-> s[Len(s) + 1 - i]]

\* The events of E that concern group g, in order.
EventsOf(E, g) == SelectSeq(E, LAMBDA e : e.g = g)

\* C12: optimizer_step_all, called in any reachable state, raises nothing
\* and steps every optimizer once: a group's events are its clip (at its own
\* max_norm) followed by its step when it has a max_norm, and its step alone
\* when it has none; every parameter with a gradient has its step counter
\* advanced by one; and with disjoint parameter lists the coordinator it
\* leaves is the same when the groups are taken in the opposite order.
C12_StepAll ==
    phase = "ready" =>
        LET r == optimizer_step_all(config, self)
            rev == StepLoop(config, Call(self, FreshScaler), Reverse(Keys(self.optimizers)), 1)
        IN  /\ r.err = NoError
            /\ \A g \in Live(self) :
                  /\ EventsOf(r.events, g) =
                        IF MaxNormOf(g) # NoMaxNorm
                        THEN <<Event("clip", g, MaxNormOf(g)[1], 0), Event("step", g, 0, 0)>>
                        ELSE <<Event("step", g, 0, 0)>>
                  /\ \A p \in GroupParams(self, g) :
                        Steps(r.w, g)[p] =
                            Steps(self, g)[p] + IF self.tensors[p].grad.tag = "none" THEN 0 ELSE 1
            /\ \A i \in 1..Len(r.events) : r.events[i].g \in Live(self)
            /\ Disjoint(self) => rev.w = r.w

\* C12's case: optimizer_step_all stepped two groups with gradients, one
\* clipped and the other not.
C12_Witness ==
    /\ last.op = "optimizer_step_all"
    /\ Disjoint(self)
    /\ \E g, h \in Live(self) :
          /\ Count("clip", g) = 1 /\ Count("step", g) = 1
          /\ Count("clip", h) = 0 /\ Count("step", h) = 1
          /\ \A p \in GroupParams(self, g) \cup GroupParams(self, h) :
                self.tensors[p].grad.tag = "num" /\ self.tensors[p].data # Num(0)

\* ---- schedulers

\* C13: scheduler_step_all(step), called in any reachable state, raises
\* nothing; every group with a scheduler has its schedule advanced by one
\* unit and gets one report, made after its scheduler's step, that carries
\* the rate the scheduler then has and the step supplied; a group without a
\* scheduler gets no step and no report.
C13_SchedulerStepAllReports ==
    phase = "ready" =>
        \A step \in 0..MaxStep :
            LET r == scheduler_step_all(config, self, step)
            IN  /\ r.err = NoError
                /\ \A g \in KeySet(self.schedulers) :
                      LET s0 == Get(self.schedulers, g)
                          s1 == Get(r.w.schedulers, g)
                      IN  /\ s1.last_epoch = s0.last_epoch + 1
                          /\ s1.last_lr = ScheduleRate(s0.base_lr, s0.cfg, s1.last_epoch)
                          /\ EventsOf(r.events, g) =
                                <<Event("sched.step", g, 0, 0),
                                  Event("put_scalar", g, s1.last_lr, step)>>
                /\ \A i \in 1..Len(r.events) : r.events[i].g \in KeySet(self.schedulers)
                /\ KeySet(r.w.schedulers) = KeySet(self.schedulers)

\* C13's case: a call at a step other than 0 reported a rate that had left
\* its initial value, while a live group has no scheduler.
C13_Witness ==
    /\ last.op = "scheduler_step_all"
    /\ last.step > 0
    /\ Live(self) \ KeySet(self.schedulers) # {}
    /\ \E i \in 1..Len(last.events) :
          /\ last.events[i].ev = "put_scalar"
          /\ last.events[i].b = last.step
          /\ last.events[i].a = Get(self.schedulers, last.events[i].g).last_lr
          /\ last.events[i].a # Get(self.schedulers, last.events[i].g).base_lr

\* C14: scheduler_step(g), called in any reachable state for a live group g:
\* with a scheduler, g's schedule advances by one unit and nothing is
\* raised; without one, the call raises nothing and changes nothing.
C14_SchedulerStep ==
    phase = "ready" =>
        \A g \in Live(self) :
            LET r == scheduler_step(config, self, g)
            IN  /\ r.err = NoError
                /\ IF Has(self.schedulers, g)
                   THEN Get(r.w.schedulers, g).last_epoch = Get(self.schedulers, g).last_epoch + 1
                   ELSE r.w = self

\* ---- zeroing

\* The coordinator without its tensors' gradients.
NoGrads(w) == [w EXCEPT !.tensors = [p \in TensorIds |-> w.tensors[p].data]]

\* The names a call went through before it ended: all of them, or those
\* before the one it raised on.
Done(names, err) ==
    IF err = NoError THEN SeqSet(names)
    ELSE {names[i] : i \in {j \in 1..Len(names) : \A k \in 1..j : names[k] # err.arg}}

\* C15: zero_grad_all and zero_grad_some change nothing but gradients: the
\* optimizers, their step counters and state, the schedulers and the
\* parameter values stay as they were.  The gradients of every group the
\* call went through (all live groups, or the named ones) are None
\* afterwards; a tensor of no such group keeps its gradient, and so does,
\* with disjoint parameter lists, every group outside the names.
C15_ZeroingFrame ==
    [][last'.op \in {"zero_grad_all", "zero_grad_some"} =>
          LET cleared == UNION {GroupParams(self, g) : g \in Done(last'.names, last'.err) \cap Live(self)}
          IN  /\ NoGrads(self') = NoGrads(self)
              /\ \A p \in TensorIds :
                    self'.tensors[p].grad = IF p \in cleared THEN NoGrad ELSE self.tensors[p].grad
              /\ last'.op = "zero_grad_all" => last'.err = NoError /\ last'.names = Keys(self.optimizers)
              /\ (SeqSet(last'.names) \subseteq Live(self)) => last'.err = NoError
              /\ Disjoint(self) =>
                    \A g \in Live(self) \ SeqSet(last'.names) : GroupView(self', g) = GroupView(self, g)]_vars

\* C15's case: zero_grad_some cleared a group that had been stepped and left
\* the gradient of a group outside the names in place.
C15_Witness ==
    /\ last.op = "zero_grad_some"
    /\ last.err = NoError
    /\ Disjoint(self)
    /\ \E g \in SeqSet(last.names), h \in Live(self) \ SeqSet(last.names) :
          /\ \A p \in GroupParams(self, g) :
                self.tensors[p].grad = NoGrad /\ Steps(self, g)[p] = 1
          /\ \A p \in GroupParams(self, h) : self.tensors[p].grad.tag = "num"

\* ---- processing order

\* The distinct elements of s in the order of their first occurrence.
RECURSIVE Dedup(_)
Dedup(s) ==
    IF s = <<>> THEN <<>>
    ELSE LET r == Dedup(SubSeq(s, 1, Len(s) - 1))
         IN  IF s[Len(s)] \in SeqSet(r) THEN r ELSE Append(r, s[Len(s)])

\* The groups the last call worked on, in the order it came to them.
Visited == Dedup([i \in 1..Len(last.events) |-> last.events[i].g])

\* The last call finished with a group before it came to the next.
OneVisitEach ==
    \A i, j, k \in 1..Len(last.events) :
        (i < j /\ j < k /\ last.events[i].g = last.events[k].g) =>
            last.events[j].g = last.events[i].g

WholeOps == {"optimizer_step_all", "optimizer_scaler_step_all", "scheduler_step_all"}

\* C16 as stated: optimizer_step_all, optimizer_scaler_step_all and
\* scheduler_step_all come to the groups in the order of the keys of the
\* configuration mapping.
C16_ConfigOrder ==
    last.op \in WholeOps =>
        OneVisitEach /\ Visited = Restrict(Keys(config), SeqSet(Visited))

\* C16 as amended: the three operations come to the groups in the order of
\* the keys of the parameter-group mapping, the order in which construction
\* built them: optimizer_step_all to every group, optimizer_scaler_step_all
\* to the groups it has anything to do for, scheduler_step_all to the groups
\* with a scheduler.
C16_ParamGroupOrder ==
    last.op \in WholeOps =>
        /\ OneVisitEach
        /\ Visited = Restrict(Keys(param_groups), SeqSet(Visited))
        /\ last.op = "optimizer_step_all" => Visited = Keys(param_groups)
        /\ last.op = "scheduler_step_all" =>
              Visited = Restrict(Keys(param_groups), KeySet(self.schedulers))
        /\ last.op = "optimizer_scaler_step_all" =>
              \A g \in Live(self) :
                  (MaxNormOf(g) # NoMaxNorm
                   \/ AnyGrad(self.tensors, Get(self.optimizers, g).params)) => g \in SeqSet(Visited)

\* C16's case: a call over two groups that the configuration mapping lists
\* in the other order.
C16_Witness ==
    /\ last.op \in {"optimizer_step_all", "optimizer_scaler_step_all"}
    /\ Len(Visited) = 2
    /\ Visited = Keys(param_groups)
    /\ Restrict(Keys(config), SeqSet(Visited)) = Reverse(Visited)

\* ---- gradient values

\* C17: in a scaled stepping call over live names, none repeated, a group
\* whose gradients are all there and all zero reaches the scaler's step
\* once and, the parameter lists being disjoint, every step counter of it
\* advances by one; and whatever the
\* gradients' values, a selected group reaches the scaler's step exactly
\* when one of its gradients is not None.
C17_ZeroGradSteppable ==
    [][(last'.op \in ScaledOps /\ DupFree(last'.names)
        /\ SeqSet(last'.names) \subseteq Live(self)) =>
          \A g \in SeqSet(last'.names) :
              /\ AllZero(self, g) =>
                    /\ CountIn(last'.events, "scaler.step", g) = 1
                    /\ Disjoint(self) =>
                          \A p \in GroupParams(self, g) : Steps(self', g)[p] = Steps(self, g)[p] + 1
              /\ CountIn(last'.events, "scaler.step", g) = 1
                    <=> AnyGrad(self.tensors, Get(self.optimizers, g).params)]_vars

\* C17's case: a group whose gradients are all zero went through the
\* scaler's step and was stepped, its parameter values staying where they were.
C17_Witness ==
    /\ last.op \in ScaledOps
    /\ last.err = NoError
    /\ Disjoint(self)
    /\ \E g \in SeqSet(last.names) \cap Live(self) :
          /\ AllZero(self, g)
          /\ Count("scaler.step", g) = 1
          /\ \A p \in GroupParams(self, g) :
                Steps(self, g)[p] = 1 /\ self.tensors[p].data = Num(0)

\* ---- all groups and subsets

\* C18: in any reachable state, optimizer_scaler_step_all and
\* optimizer_scaler_step_some given the names of self.optimizers in order
\* make the same calls on the scaler and the clipping function, in the same
\* order, raise the same, and leave the same coordinator and scaler.
C18_AllEqualsSomeOfAll ==
    phase = "ready" =>
        LET a == optimizer_scaler_step_all(config, self, FreshScaler)
            s == optimizer_scaler_step_some(config, self, FreshScaler, Keys(self.optimizers))
        IN  /\ a.events = s.events
            /\ a.err = s.err
            /\ a.w = s.w
            /\ a.sc = s.sc

\* C18's case: optimizer_scaler_step_all unscaled, clipped and stepped one
\* group and stepped another, changing a parameter value.
C18_Witness ==
    /\ last.op = "optimizer_scaler_step_all"
    /\ last.err = NoError
    /\ Len(Visited) = 2
    /\ \E i \in 1..Len(last.events) : last.events[i].ev = "clip"
    /\ \A g \in Live(self) : Count("scaler.step", g) = 1
    /\ \E p \in TensorIds : self.tensors[p].data # Num(0)

\* ---- partial loads

\* The position in names of the name a KeyError was raised for.
RaisedAt(names, err) == CHOOSE i \in 1..Len(names) : names[i] = err.arg

\* C19: when load_optimizers raises KeyError, the name it raises for is the
\* first of the loaded mapping without a live optimizer; the optimizers of
\* the names before it hold the loaded state, every other optimizer is as it
\* was, and so are the schedulers, parameter lists and tensors.  The same
\* for load_schedulers and the live schedulers.
C19_LoadNotAtomic ==
    [][(last'.op \in {"load_optimizers", "load_schedulers"} /\ last'.err.type = "KeyError") =>
          LET names == last'.names
              k == RaisedAt(names, last'.err)
              before == {names[i] : i \in 1..(k - 1)}
          IN  /\ self'.tensors = self.tensors /\ self'.parameters = self.parameters
              /\ Keys(self'.optimizers) = Keys(self.optimizers)
              /\ Keys(self'.schedulers) = Keys(self.schedulers)
              /\ CountIn(last'.events, "load", last'.err.arg) = 0
              /\ last'.op = "load_optimizers" =>
                    /\ names[k] \notin Live(self) /\ before \subseteq Live(self)
                    /\ self'.schedulers = self.schedulers
                    /\ \A g \in Live(self) :
                          Get(self'.optimizers, g) =
                              IF g \in before
                              THEN OptLoadStateDict(Get(self.optimizers, g),
                                                    Get(LoadedOptimizers(self, names), g))
                              ELSE Get(self.optimizers, g)
              /\ last'.op = "load_schedulers" =>
                    /\ names[k] \notin KeySet(self.schedulers)
                    /\ before \subseteq KeySet(self.schedulers)
                    /\ self'.optimizers = self.optimizers
                    /\ \A g \in KeySet(self.schedulers) :
                          Get(self'.schedulers, g) =
                              IF g \in before
                              THEN SchedLoadStateDict(Get(self.schedulers, g), CannedSchedState)
                              ELSE Get(self.schedulers, g)]_vars

\* C19's case: load_optimizers raised on the second name of the loaded
\* mapping with the first group loaded and another live group not.
C19_Witness ==
    /\ last.op = "load_optimizers"
    /\ last.err.type = "KeyError"
    /\ Len(last.names) = 2
    /\ last.err.arg = last.names[2]
    /\ last.names[1] \in Live(self)
    /\ Get(self.optimizers, last.names[1]).lr = CannedOptState(1).lr
    /\ \E h \in Live(self) : Get(self.optimizers, h).lr # CannedOptState(1).lr

\* ---- the caller's configuration mapping (checked under SpecConstruct)

\* Construction comes to the camera_opt group: it is a parameter group and
\* the groups before it construct.
ReachesCameraOpt ==
    /\ Has(param_groups, "camera_opt")
    /\ LET i == CHOOSE j \in 1..Len(param_groups) : param_groups[j].k = "camera_opt"
       IN  Optimizers_init(config, Prefix(param_groups, i - 1)).err = NoError

\* C20: a construction that comes to a camera_opt group absent from the
\* configuration mapping prints the warning once and leaves the mapping
\* with the legacy entry added after its other entries; any other
\* construction prints no warning and leaves the mapping as it was.  A
\* second construction from the mapping the first one left prints no
\* warning and does not change it.
C20_LegacyWritesCallerConfig ==
    [][phase = "new" =>
          LET legacy == ReachesCameraOpt /\ ~Has(config, "camera_opt")
              again == Optimizers_init(config', param_groups)
          IN  /\ warned' = IF legacy THEN 1 ELSE 0
              /\ config' = IF legacy
                           THEN Append(config, [k |-> "camera_opt", v |-> LegacyEntry])
                           ELSE config
              /\ again.warned = 0
              /\ again.config = config'
              /\ phase' = "ready" => again.err = NoError]_vars

\* C20's case: a coordinator was built with the warning printed, and the
\* caller's mapping now ends with the legacy entry after its own entries.
C20_Witness ==
    /\ phase = "ready"
    /\ warned = 1
    /\ Len(config) >= 2
    /\ config[Len(config)] = [k |-> "camera_opt", v |-> LegacyEntry]
    /\ Len(param_groups) >= 2

====
